---- MODULE Spec2Model ----
(***************************************************************************)
(* BiteBook backend: the recipe import pipeline.                           *)
(*                                                                         *)
(*   POST /import-recipe  ->  root(data)  ->  extract(data.url)            *)
(*                                                                         *)
(* extract (summarize.py) opens an AsyncWebCrawler in an `async with`      *)
(* block, awaits crawler.arun(url, config) once, and then either parses    *)
(* result.extracted_content with json.loads and returns the parsed data    *)
(* (result.success) or prints result.error_message and falls off the end   *)
(* of the function (returning None).  root returns that value unchanged.   *)
(*                                                                         *)
(* The crawler (page renderer + LLM extraction strategy) is a library: its *)
(* answers are the environment of this model.  Several imports may be in   *)
(* flight at once; each is one coroutine, suspended at its awaits.         *)
(***************************************************************************)
EXTENDS Integers, Sequences, FiniteSets, TLC

\* Number of import requests that may be in flight together.
NumRequests == 3

Requests == 1..NumRequests

VARIABLES
    pc,          \* pc[r]: where the coroutine of request r stands
    open,        \* open[r]: the AsyncWebCrawler (browser context) of r is open
    result,      \* result[f]: the local `result` of the extract frame f
    outcome,     \* outcome[r]: how extract(url) ended for r
    renders,     \* renders[r]: page navigations performed for r
    extractions, \* extractions[r]: extraction passes (LLM) performed for r
    env,         \* env[r]: what the renderer and the extractor did for r
    users,       \* users[id]: the documents of collection "users"
    recipes,     \* recipes[id]: the documents of collection "recipes"
    blobs,       \* the blob paths that exist in the storage bucket
    now,         \* the clock: index of the current instant in Calendar
    calls,       \* the store and bucket calls made by the last GraphQL operation
    ret,         \* how the last GraphQL operation ended
    inflight     \* inflight[w]: the create_relationship call that server worker
                 \* w is running, with its position and its local lists

importVars == <<pc, open, result, outcome, renders, extractions, env>>
storeVars == <<users, recipes, blobs, now, calls, ret, inflight>>
vars == <<importVars, storeVars>>

-----------------------------------------------------------------------------
(* JSON values, as json.loads builds them and FastAPI serialises them.     *)

Null == [t |-> "null"]
List(items) == [t |-> "list", items |-> items]

\* One block of a successful schema extraction (Recipe, Ingredient).
RecipeBlock ==
    [name         |-> "Matcha Green Tea",
     ingredients  |-> <<[name |-> "hot water", amount |-> "2 ounces"],
                        [name |-> "steamed milk", amount |-> "6 ounces"]>>,
     instructions |-> <<"Whisk the matcha.", "Add water and mix.">>,
     error        |-> FALSE]

\* The block the extraction strategy emits in place of a chunk it could
\* not extract: an error flag and the message as content.
ErrorBlock(msg) ==
    [index |-> 0, error |-> TRUE, tags |-> <<"error">>, content |-> msg]

-----------------------------------------------------------------------------
(* result.extracted_content: a str, or None when no extraction ran.        *)

NoneContent == [t |-> "none"]
Str(s) == [t |-> "str", s |-> s]

RecipeJson      == "[{\"name\": \"Matcha Green Tea\", ...}]"
EmptyJson       == "[]"
AuthErrorJson   == "[{\"index\": 0, \"error\": true, \"content\": \"AuthenticationError\"}]"
UnparsedJson    == "[{\"index\": 0, \"error\": true, \"content\": \"<unparsed>\"}]"
NoRecipeText    == "No recipe data found"
GarbageText     == "Here is the recipe you asked for: {name: ..."

\* The JSON documents among the texts above, with the value each denotes.
JsonDocuments ==
    (RecipeJson    :> List(<<RecipeBlock>>)) @@
    (EmptyJson     :> List(<<>>)) @@
    (AuthErrorJson :> List(<<ErrorBlock("AuthenticationError")>>)) @@
    (UnparsedJson  :> List(<<ErrorBlock("<unparsed>")>>))

\* json.loads(content): the parsed value, or the exception it raises
\* (TypeError for None, JSONDecodeError for text that is not JSON).
json_loads(content) ==
    IF content.t = "none"
    THEN [raised |-> TRUE, exc |-> "TypeError", value |-> Null]
    ELSE IF content.s \in DOMAIN JsonDocuments
         THEN [raised |-> FALSE, exc |-> "", value |-> JsonDocuments[content.s]]
         ELSE [raised |-> TRUE, exc |-> "JSONDecodeError", value |-> Null]

-----------------------------------------------------------------------------
(* CrawlResult: what `await crawler.arun(...)` hands back to extract.      *)

CrawlResult(success, error_message, extracted_content) ==
    [success |-> success, error_message |-> error_message,
     extracted_content |-> extracted_content]

NoResult == CrawlResult(FALSE, "", NoneContent)

\* Navigation failures the renderer reports (DNS failure, timeout).
RenderErrors == {"net::ERR_NAME_NOT_RESOLVED", "Timeout 60000ms exceeded"}

\* What the extraction can come to, once the page has rendered.
ExtractorKinds == {"recipe", "no_recipe", "transport_failure", "parse_failure"}

\* The crawl results the library may report for each of them: the
\* extraction strategy's JSON blocks, the model's text passed through, or
\* a failed crawl when the error surfaces in arun itself.
CrawlAnswers(kind) ==
    CASE kind = "recipe" ->
           {CrawlResult(TRUE, "", Str(RecipeJson))}
      [] kind = "no_recipe" ->
           {CrawlResult(TRUE, "", Str(EmptyJson)),
            CrawlResult(TRUE, "", Str(NoRecipeText))}
      [] kind = "transport_failure" ->
           {CrawlResult(TRUE, "", Str(AuthErrorJson)),
            CrawlResult(FALSE, "AuthenticationError", NoneContent)}
      [] kind = "parse_failure" ->
           {CrawlResult(TRUE, "", Str(UnparsedJson)),
            CrawlResult(TRUE, "", Str(GarbageText))}

-----------------------------------------------------------------------------
(* extract, lines 66-74: from the crawl result to the way extract ends.    *)

Returned(v) == [kind |-> "returned", value |-> v, exc |-> ""]
Raised(e)   == [kind |-> "raised", value |-> Null, exc |-> e]
Pending     == [kind |-> "pending", value |-> Null, exc |-> ""]
Cancelled   == Raised("CancelledError")

extract_body(res) ==
    IF res.success
    THEN LET data == json_loads(res.extracted_content)
         IN  IF data.raised THEN Raised(data.exc) ELSE Returned(data.value)
    ELSE Returned(Null)

\* A handler that answers with an envelope around the pipeline's value.
HttpResponseWrapped(o) ==
    IF o.kind = "returned"
    THEN [status |-> 200, body |-> [t |-> "object", recipe |-> o.value]]
    ELSE [status |-> 500, body |-> [t |-> "text", s |-> "Internal Server Error"]]

\* root + FastAPI: the returned value is the 200 body; an exception
\* that escapes the handler is answered 500 with a plain-text body.
HttpResponse(o) ==
    IF o.kind = "returned"
    THEN [status |-> 200, body |-> o.value]
    ELSE [status |-> 500, body |-> [t |-> "text", s |-> "Internal Server Error"]]

root(r) == HttpResponse(outcome[r])

-----------------------------------------------------------------------------
(* Python values of the GraphQL layer (main.py).                           *)
(* Optional[T]: None is <<>> and a value v is <<v>>, so that None compares *)
(* with every value.  Lists are sequences.                                 *)

None == <<>>
Some(v) == <<v>>

\* Python truthiness of an Optional[str]: None and "" are falsy.
Truthy(x) == x # None /\ x[1] # ""

\* `x or []` for an Optional[List]
ListOrEmpty(x) == IF x = None THEN <<>> ELSE x[1]

\* dict.get(key) and dict.get(key, default)
Get(d, k) == IF k \in DOMAIN d THEN d[k] ELSE None
GetOr(d, k, default) == IF k \in DOMAIN d THEN d[k] ELSE default

\* The instants of the model's clock, with datetime.isoformat() of each
\* and its .year and .month.
Calendar ==
    << [iso |-> "2025-03-31T23:59:00+00:00", year |-> 2025, month |-> 3],
       [iso |-> "2025-04-01T00:01:00+00:00", year |-> 2025, month |-> 4],
       [iso |-> "2025-04-02T08:30:00+00:00", year |-> 2025, month |-> 4],
       [iso |-> "2025-05-01T09:00:00+00:00", year |-> 2025, month |-> 5],
       [iso |-> "2026-04-01T09:00:00+00:00", year |-> 2026, month |-> 4] >>

\* The clock runs over the first MaxTime instants of Calendar.
MaxTime == 2

isoformat(dt) == Calendar[dt].iso
fromisoformat(str) == CHOOSE dt \in 1..Len(Calendar) : Calendar[dt].iso = str

\* `x.isoformat() if x else None` for a stored Optional[datetime]
IsoOrNone(x) == IF x = None THEN None ELSE Some(isoformat(x[1]))

-----------------------------------------------------------------------------
(* The document store and the blob store at start-up.                      *)

UserIds == {"u1", "u2", "u3"}
RecipeIds == {"r1", "r2"}

UserDoc(uid, displayName, relationships) ==
    [uid            |-> Some(uid),
     displayName    |-> Some(displayName),
     profilePicture |-> Some("https://example.com/pfp.jpg"),
     createdAt      |-> Some(1),
     relationships  |-> relationships]

InitialUsers ==
    [u \in UserIds |->
        CASE u = "u1" -> UserDoc("u1", "Ann", <<"u2">>)
          [] u = "u2" -> UserDoc("u2", "Bob", <<"u1">>)
          [] u = "u3" -> UserDoc("u3", "Cy", <<>>)]

\* No recipe yet: the function with the empty domain.
NoDocuments == [id \in {} |-> <<>>]

\* Photo URLs as the client stores them, and the blobs uploaded so far.
FirebasePhoto ==
    "https://firebasestorage.googleapis.com/v0/b/bitebook-e7770.firebasestorage.app/o/images%2Ftest.jpg?alt=media"
FirebasePhotoNoBlob ==
    "https://firebasestorage.googleapis.com/v0/b/bitebook-e7770.firebasestorage.app/o/images%2Fgone.jpg?alt=media"
ExternalPhoto == "https://example.com/photo.jpg"

InitialBlobs == {"images/test.jpg", "images/pfp.jpg"}

NoReturn == [op |-> "", kind |-> "none", value |-> None, exc |-> ""]

\* The server processes that answer GraphQL requests, and a process that
\* is running no create_relationship.
Workers == {"w1", "w2"}
Idle == [pc |-> "idle", first_user_id |-> "", second_user_id |-> "",
         first_user_relationships |-> <<>>, second_user_relationships |-> <<>>]

StoreInit ==
    /\ users = InitialUsers
    /\ recipes = NoDocuments
    /\ blobs = InitialBlobs
    /\ now = 1
    /\ calls = <<>>
    /\ ret = NoReturn
    /\ inflight = [w \in Workers |-> Idle]

-----------------------------------------------------------------------------
(* State.                                                                  *)

PcValues == {"idle", "rendering", "extracting", "crawled", "done", "cancelled"}

NoEnv == [render |-> "pending", extractor |-> "not_called", answer |-> NoResult]

Init ==
    /\ pc = [r \in Requests |-> "idle"]
    /\ open = [r \in Requests |-> FALSE]
    /\ result = [r \in Requests |-> NoResult]
    /\ outcome = [r \in Requests |-> Pending]
    /\ renders = [r \in Requests |-> 0]
    /\ extractions = [r \in Requests |-> 0]
    /\ env = [r \in Requests |-> NoEnv]
    /\ StoreInit

\* The locals of extract (browser_config, llm_strategy, config, crawler,
\* result, data) live in the frame of the call: one frame per request.
SharedFrame(r) == 1
Frame(r) == r

\* `async with AsyncWebCrawler(...) as crawler`: __aexit__ closes the
\* crawler however the block is left (return, exception, cancellation).
aexit_on_return_only(o, r, how) ==
    IF how = "returned" THEN [o EXCEPT ![r] = FALSE] ELSE o
aexit(o, r, how) == [o EXCEPT ![r] = FALSE]

-----------------------------------------------------------------------------
(* Operations.                                                             *)

\* POST /import-recipe arrives: root awaits extract(data.url), which builds
\* its configuration and enters the crawler context (lines 27-60).
Import(r) ==
    /\ pc[r] = "idle"
    /\ pc' = [pc EXCEPT ![r] = "rendering"]
    /\ open' = [open EXCEPT ![r] = TRUE]
    /\ UNCHANGED <<result, outcome, renders, extractions, env>>
    /\ UNCHANGED storeVars

\* Inside arun: the navigation fails; arun reports success = False and
\* runs no extraction.
RenderFails(r, msg) ==
    /\ pc[r] = "rendering"
    /\ msg \in RenderErrors
    /\ LET ans == CrawlResult(FALSE, msg, NoneContent) IN
       /\ result' = [result EXCEPT ![Frame(r)] = ans]
       /\ env' = [env EXCEPT ![r] = [render |-> "failed",
                                     extractor |-> "not_called",
                                     answer |-> ans]]
    /\ renders' = [renders EXCEPT ![r] = @ + 1]
    /\ pc' = [pc EXCEPT ![r] = "crawled"]
    /\ UNCHANGED <<open, outcome, extractions>>
    /\ UNCHANGED storeVars

\* Inside arun: the page rendered; the extraction strategy is run on its
\* filtered markdown.
RenderSucceeds(r) ==
    /\ pc[r] = "rendering"
    /\ renders' = [renders EXCEPT ![r] = @ + 1]
    /\ env' = [env EXCEPT ![r].render = "ok"]
    /\ pc' = [pc EXCEPT ![r] = "extracting"]
    /\ UNCHANGED <<open, result, outcome, extractions>>
    /\ UNCHANGED storeVars

\* Inside arun: the extraction pass ends and arun returns its CrawlResult.
ExtractorAnswers(r, kind, ans) ==
    /\ pc[r] = "extracting"
    /\ kind \in ExtractorKinds
    /\ ans \in CrawlAnswers(kind)
    /\ extractions' = [extractions EXCEPT ![r] = @ + 1]
    /\ result' = [result EXCEPT ![Frame(r)] = ans]
    /\ env' = [env EXCEPT ![r].extractor = kind, ![r].answer = ans]
    /\ pc' = [pc EXCEPT ![r] = "crawled"]
    /\ UNCHANGED <<open, outcome, renders>>
    /\ UNCHANGED storeVars

\* A variant of Return that runs the crawl again after a failed one.
ReturnRetrying(r) ==
    /\ pc[r] = "crawled"
    /\ IF ~result[Frame(r)].success /\ renders[r] < 2
       THEN /\ pc' = [pc EXCEPT ![r] = "rendering"]
            /\ UNCHANGED <<open, outcome>>
       ELSE /\ outcome' = [outcome EXCEPT ![r] = extract_body(result[Frame(r)])]
            /\ open' = aexit(open, r, outcome'[r].kind)
            /\ pc' = [pc EXCEPT ![r] = "done"]
    /\ UNCHANGED <<result, renders, extractions, env>>
    /\ UNCHANGED storeVars

\* A variant of Return that saves an imported recipe in the store.
ReturnSaving(r) ==
    /\ pc[r] = "crawled"
    /\ outcome' = [outcome EXCEPT ![r] = extract_body(result[Frame(r)])]
    /\ open' = aexit(open, r, outcome'[r].kind)
    /\ pc' = [pc EXCEPT ![r] = "done"]
    /\ IF outcome'[r].kind = "returned" /\ outcome'[r].value # Null
       THEN /\ recipes' = [id \in DOMAIN recipes \cup {"r1"} |-> outcome'[r].value]
            /\ calls' = <<[op |-> "set", coll |-> "recipes", id |-> "r1",
                           data |-> outcome'[r].value]>>
       ELSE UNCHANGED <<recipes, calls>>
    /\ UNCHANGED <<result, renders, extractions, env>>
    /\ UNCHANGED <<users, blobs, now, ret, inflight>>

\* extract resumes with `result` (lines 66-74), leaves the `async with`
\* block by return or by exception, and root answers the request.
Return(r) ==
    /\ pc[r] = "crawled"
    /\ outcome' = [outcome EXCEPT ![r] = extract_body(result[Frame(r)])]
    /\ open' = aexit(open, r, outcome'[r].kind)
    /\ pc' = [pc EXCEPT ![r] = "done"]
    /\ UNCHANGED <<result, renders, extractions, env>>
    /\ UNCHANGED storeVars

\* The caller cancels while extract is suspended in `await crawler.arun`:
\* CancelledError is raised at the await and leaves the `async with` block.
Cancel(r) ==
    /\ pc[r] \in {"rendering", "extracting"}
    /\ outcome' = [outcome EXCEPT ![r] = Cancelled]
    /\ open' = aexit(open, r, "raised")
    /\ pc' = [pc EXCEPT ![r] = "cancelled"]
    /\ UNCHANGED <<result, renders, extractions, env>>
    /\ UNCHANGED storeVars

Next ==
    \E r \in Requests :
        \/ Import(r)
        \/ \E msg \in RenderErrors : RenderFails(r, msg)
        \/ RenderSucceeds(r)
        \/ \E kind \in ExtractorKinds :
             \E ans \in CrawlAnswers(kind) : ExtractorAnswers(r, kind, ans)
        \/ Return(r)
        \/ Cancel(r)

Spec == Init /\ [][Next]_vars

TypeOK ==
    /\ pc \in [Requests -> PcValues]
    /\ open \in [Requests -> BOOLEAN]
    /\ \A r \in Requests : outcome[r].kind \in {"pending", "returned", "raised"}
    /\ \A r \in Requests : renders[r] \in 0..1 /\ extractions[r] \in 0..1

-----------------------------------------------------------------------------
(* Firestore and the storage bucket, as main.py calls them.                *)

\* One call on a document reference, a query or a blob.
Call(op, coll, id, data) == [op |-> op, coll |-> coll, id |-> id, data |-> data]

\* DocumentReference.set(doc) / .update(fields) / .delete() on a collection.
doc_set(docs, id, doc) ==
    [k \in DOMAIN docs \cup {id} |-> IF k = id THEN doc ELSE docs[k]]
doc_update(docs, id, fields) ==
    [docs EXCEPT ![id] =
        [f \in DOMAIN docs[id] \cup DOMAIN fields |->
            IF f \in DOMAIN fields THEN fields[f] ELSE docs[id][f]]]
doc_delete(docs, id) == [k \in DOMAIN docs \ {id} |-> docs[k]]

\* urlparse(photo_url).path, for the URLs of the model.
UrlPath(url) ==
    CASE url = FirebasePhoto ->
           "/v0/b/bitebook-e7770.firebasestorage.app/o/images%2Ftest.jpg"
      [] url = FirebasePhotoNoBlob ->
           "/v0/b/bitebook-e7770.firebasestorage.app/o/images%2Fgone.jpg"
      [] url = ExternalPhoto -> "/photo.jpg"

\* path.split('/o/'): the pieces around each '/o/'.
SplitO(path) ==
    CASE path = "/v0/b/bitebook-e7770.firebasestorage.app/o/images%2Ftest.jpg" ->
           <<"/v0/b/bitebook-e7770.firebasestorage.app", "images%2Ftest.jpg">>
      [] path = "/v0/b/bitebook-e7770.firebasestorage.app/o/images%2Fgone.jpg" ->
           <<"/v0/b/bitebook-e7770.firebasestorage.app", "images%2Fgone.jpg">>
      [] path = "/photo.jpg" -> <<"/photo.jpg">>

\* urllib.parse.unquote
unquote(str) ==
    CASE str = "images%2Ftest.jpg" -> "images/test.jpg"
      [] str = "images%2Fgone.jpg" -> "images/gone.jpg"
      [] OTHER -> str

\* How a GraphQL operation ends: the value its resolver returns, or the
\* exception it raises.
Result(op, args, value) ==
    [op |-> op, args |-> args, kind |-> "returned", value |-> value, exc |-> ""]
Failure(op, args, exc) ==
    [op |-> op, args |-> args, kind |-> "raised", value |-> None, exc |-> exc]

-----------------------------------------------------------------------------
(* Inputs and helpers of the recipe mutations.                             *)

RecipeInput(user_id, url, name, photo_url, ingredients, steps, tastes, has_cooked) ==
    [user_id |-> user_id, url |-> url, name |-> name, photo_url |-> photo_url,
     ingredients |-> ingredients, steps |-> steps, tastes |-> tastes,
     has_cooked |-> has_cooked]

\* [{"name": ing.name, "count": ing.count} for ing in (ingredients or [])]
ingredients_list(recipe_data) ==
    LET ings == ListOrEmpty(recipe_data.ingredients) IN
    [i \in 1..Len(ings) |-> [name |-> ings[i].name, count |-> ings[i].count]]

\* [{"text": step.text, "expanded": step.expanded} for step in (steps or [])]
steps_list(recipe_data) ==
    LET steps == ListOrEmpty(recipe_data.steps) IN
    [i \in 1..Len(steps) |-> [text |-> steps[i].text, expanded |-> steps[i].expanded]]

\* The Recipe object built from a stored document (fetch_recipe, and the
\* return of edit_recipe): every field through dict.get.
RecipeOf(recipe_dict) ==
    [user_id       |-> Get(recipe_dict, "user_id"),
     uid           |-> Get(recipe_dict, "uid"),
     url           |-> Get(recipe_dict, "url"),
     name          |-> Get(recipe_dict, "name"),
     photo_url     |-> Get(recipe_dict, "photo_url"),
     ingredients   |-> GetOr(recipe_dict, "ingredients", <<>>),
     steps         |-> GetOr(recipe_dict, "steps", <<>>),
     tastes        |-> GetOr(recipe_dict, "tastes", <<>>),
     has_cooked    |-> Get(recipe_dict, "has_cooked"),
     likes         |-> GetOr(recipe_dict, "likes", 0),
     createdAt     |-> IsoOrNone(Get(recipe_dict, "createdAt")),
     lastUpdatedAt |-> IsoOrNone(Get(recipe_dict, "lastUpdatedAt")),
     user          |-> None]

\* fetch_recipe(recipe_uid): None when the document does not exist.
fetch_recipe(docs, recipe_uid) ==
    IF recipe_uid \notin DOMAIN docs THEN None
    ELSE Some(RecipeOf(docs[recipe_uid]))

\* fetch_user(user_id): None for a falsy id or a missing document; the
\* User it builds carries no relationships.
fetch_user(udocs, user_id) ==
    IF ~Truthy(user_id) \/ user_id[1] \notin DOMAIN udocs THEN None
    ELSE LET user_dict == udocs[user_id[1]] IN
         Some([uid            |-> Get(user_dict, "uid"),
               displayName    |-> Get(user_dict, "displayName"),
               profilePicture |-> Get(user_dict, "profilePicture"),
               createdAt      |-> IsoOrNone(Get(user_dict, "createdAt")),
               relationships  |-> None])

\* Query.get_recipe(recipe_uid), for an existing recipe.
get_recipe(docs, udocs, recipe_uid) ==
    LET recipe == fetch_recipe(docs, recipe_uid)[1] IN
    [recipe EXCEPT !.user = fetch_user(udocs, recipe.user_id)]

-----------------------------------------------------------------------------
(* Mutation.create_recipe                                                  *)

\* A slip: the new document is stamped with lastUpdatedAt as well.
recipe_doc_stamped(recipe_id, recipe_data, t) ==
    [user_id       |-> recipe_data.user_id,
     uid           |-> Some(recipe_id),
     url           |-> recipe_data.url,
     name          |-> recipe_data.name,
     photo_url     |-> recipe_data.photo_url,
     ingredients   |-> ingredients_list(recipe_data),
     steps         |-> steps_list(recipe_data),
     tastes        |-> ListOrEmpty(recipe_data.tastes),
     has_cooked    |-> recipe_data.has_cooked,
     likes         |-> 0,
     createdAt     |-> Some(t),
     lastUpdatedAt |-> Some(t)]

\* recipe_doc, lines 327-340.
recipe_doc(recipe_id, recipe_data, t) ==
    [user_id     |-> recipe_data.user_id,
     uid         |-> Some(recipe_id),
     url         |-> recipe_data.url,
     name        |-> recipe_data.name,
     photo_url   |-> recipe_data.photo_url,
     ingredients |-> ingredients_list(recipe_data),
     steps       |-> steps_list(recipe_data),
     tastes      |-> ListOrEmpty(recipe_data.tastes),
     has_cooked  |-> recipe_data.has_cooked,
     likes       |-> 0,
     createdAt   |-> Some(t)]

\* The Recipe returned by create_recipe, lines 345-358.
created_recipe(recipe_id, recipe_data, doc) ==
    [user_id       |-> recipe_data.user_id,
     uid           |-> Some(recipe_id),
     url           |-> recipe_data.url,
     name          |-> recipe_data.name,
     photo_url     |-> recipe_data.photo_url,
     ingredients   |-> ingredients_list(recipe_data),
     steps         |-> steps_list(recipe_data),
     tastes        |-> ListOrEmpty(recipe_data.tastes),
     has_cooked    |-> recipe_data.has_cooked,
     likes         |-> 0,
     createdAt     |-> Some(isoformat(doc.createdAt[1])),
     lastUpdatedAt |-> None,
     user          |-> None]

\* document() generates an id no document has; set() writes the document.
create_recipe(recipe_data) ==
    \E recipe_id \in RecipeIds \ DOMAIN recipes :
        LET doc == recipe_doc(recipe_id, recipe_data, now) IN
        /\ recipes' = doc_set(recipes, recipe_id, doc)
        /\ calls' = <<Call("set", "recipes", recipe_id, doc)>>
        /\ ret' = Result("create_recipe", recipe_data,
                         created_recipe(recipe_id, recipe_data, doc))
        /\ UNCHANGED <<users, blobs, now>>
        /\ UNCHANGED importVars
    /\ UNCHANGED inflight

-----------------------------------------------------------------------------
(* Mutation.edit_recipe                                                    *)

RecipeInputFields ==
    {"user_id", "url", "name", "has_cooked", "photo_url",
     "ingredients", "steps", "tastes"}

\* A slip: every input field is written, the null ones too.
update_data_all_fields(recipe_data, t) ==
    [f \in RecipeInputFields \cup {"lastUpdatedAt"} |->
        CASE f = "ingredients"   -> ingredients_list(recipe_data)
          [] f = "steps"         -> steps_list(recipe_data)
          [] f = "tastes"        -> ListOrEmpty(recipe_data.tastes)
          [] f = "lastUpdatedAt" -> Some(t)
          [] OTHER               -> recipe_data[f]]

\* update_data, lines 375-395: the fields provided, and lastUpdatedAt.
update_data(recipe_data, t) ==
    [f \in {g \in RecipeInputFields : recipe_data[g] # None} \cup {"lastUpdatedAt"} |->
        CASE f = "ingredients"   -> ingredients_list(recipe_data)
          [] f = "steps"         -> steps_list(recipe_data)
          [] f = "tastes"        -> recipe_data.tastes[1]
          [] f = "lastUpdatedAt" -> Some(t)
          [] OTHER               -> recipe_data[f]]

\* edit_recipe writing with set(..., merge=True): a missing document is
\* created.
edit_recipe_upserting(recipe_id, recipe_data) ==
    /\ LET fields == update_data(recipe_data, now)
           updated == IF recipe_id \in DOMAIN recipes
                      THEN doc_update(recipes, recipe_id, fields)
                      ELSE doc_set(recipes, recipe_id, fields)
       IN  /\ recipes' = updated
           /\ calls' = <<Call("get", "recipes", recipe_id, <<>>),
                         Call("set", "recipes", recipe_id, fields),
                         Call("get", "recipes", recipe_id, <<>>)>>
           /\ ret' = Result("edit_recipe", <<recipe_id, recipe_data>>,
                            RecipeOf(updated[recipe_id]))
    /\ UNCHANGED <<users, blobs, now>>
    /\ UNCHANGED importVars
    /\ UNCHANGED inflight

edit_recipe(recipe_id, recipe_data) ==
    /\ IF recipe_id \notin DOMAIN recipes
       THEN /\ ret' = Failure("edit_recipe", <<recipe_id, recipe_data>>,
                              "ValueError: Recipe not found")
            /\ calls' = <<Call("get", "recipes", recipe_id, <<>>)>>
            /\ UNCHANGED recipes
       ELSE LET fields == update_data(recipe_data, now)
                updated == doc_update(recipes, recipe_id, fields)
            IN  /\ recipes' = updated
                /\ calls' = <<Call("get", "recipes", recipe_id, <<>>),
                              Call("update", "recipes", recipe_id, fields),
                              Call("get", "recipes", recipe_id, <<>>)>>
                /\ ret' = Result("edit_recipe", <<recipe_id, recipe_data>>,
                                 RecipeOf(updated[recipe_id]))
    /\ UNCHANGED <<users, blobs, now>>
    /\ UNCHANGED importVars
    /\ UNCHANGED inflight

-----------------------------------------------------------------------------
(* Mutation.delete_recipe                                                  *)

\* blob_path, lines 522-524; <<>> stands for the IndexError of `[1]`.
blob_path(photo_url) ==
    LET parts == SplitO(UrlPath(photo_url)) IN
    IF Len(parts) < 2 THEN None ELSE Some(unquote(parts[2]))

delete_recipe(recipe_id) ==
    /\ IF recipe_id \notin DOMAIN recipes
       THEN /\ ret' = Failure("delete_recipe", recipe_id,
                              "ValueError: Recipe not found")
            /\ calls' = <<Call("get", "recipes", recipe_id, <<>>)>>
            /\ UNCHANGED <<recipes, blobs>>
       ELSE LET photo_url == Get(recipes[recipe_id], "photo_url")
                get == Call("get", "recipes", recipe_id, <<>>)
                delete == Call("delete", "recipes", recipe_id, <<>>)
            IN
            IF ~Truthy(photo_url)
            THEN /\ recipes' = doc_delete(recipes, recipe_id)
                 /\ calls' = <<get, delete>>
                 /\ ret' = Result("delete_recipe", recipe_id, None)
                 /\ UNCHANGED blobs
            ELSE LET path == blob_path(photo_url[1]) IN
                 IF path = None
                 THEN /\ ret' = Failure("delete_recipe", recipe_id,
                                        "IndexError: list index out of range")
                      /\ calls' = <<get>>
                      /\ UNCHANGED <<recipes, blobs>>
                 ELSE /\ blobs' = blobs \ {path[1]}
                      /\ recipes' = doc_delete(recipes, recipe_id)
                      /\ calls' =
                           IF path[1] \in blobs
                           THEN <<get, Call("exists", "blob", path[1], <<>>),
                                  Call("delete", "blob", path[1], <<>>), delete>>
                           ELSE <<get, Call("exists", "blob", path[1], <<>>), delete>>
                      /\ ret' = Result("delete_recipe", recipe_id, None)
    /\ UNCHANGED <<users, now>>
    /\ UNCHANGED importVars
    /\ UNCHANGED inflight

\* Time passes.
Tick ==
    /\ now < MaxTime
    /\ now' = now + 1
    /\ UNCHANGED <<users, recipes, blobs, calls, ret>>
    /\ UNCHANGED importVars
    /\ UNCHANGED inflight

-----------------------------------------------------------------------------
(* The recipe mutations, run one after another on the store.               *)

Flour == [name |-> "Flour", count |-> "2 cups"]
Mix == [text |-> "Mix ingredients", expanded |-> TRUE]

\* recipe_data of create_recipe: a full input, an input without lists and
\* with a photo hosted elsewhere, an input with a photo that was never
\* uploaded, and the empty input.
CreateInputs ==
    { RecipeInput(Some("u1"), Some("https://example.com/choco-cake"),
                  Some("Chocolate Cake"), Some(FirebasePhoto),
                  Some(<<Flour>>), Some(<<Mix>>), Some(<<"Sweet">>), Some(TRUE)),
      RecipeInput(Some("u2"), None, Some("Toast"), Some(ExternalPhoto),
                  None, None, None, Some(TRUE)),
      RecipeInput(Some("u1"), None, Some("Soup"), Some(FirebasePhotoNoBlob),
                  Some(<<>>), None, Some(<<"Salty", "Umami">>), Some(FALSE)),
      RecipeInput(None, None, None, None, None, None, None, None) }

\* recipe_data of edit_recipe: a name alone, lists and flags, nothing.
EditInputs ==
    { RecipeInput(None, None, Some("Updated Cake"), None, None, None, None, None),
      RecipeInput(None, None, None, Some(""), Some(<<>>), None,
                  Some(<<"Sour">>), Some(FALSE)),
      RecipeInput(None, None, None, None, None, None, None, None) }

RecipeNext ==
    \/ \E recipe_data \in CreateInputs : create_recipe(recipe_data)
    \/ \E recipe_id \in RecipeIds, recipe_data \in EditInputs :
          edit_recipe(recipe_id, recipe_data)
    \/ \E recipe_id \in RecipeIds : delete_recipe(recipe_id)
    \/ Tick

RecipeSpec == Init /\ [][RecipeNext]_vars

-----------------------------------------------------------------------------
(* The relationship mutations.                                             *)

\* x in list
InList(x, list) == \E i \in 1..Len(list) : list[i] = x

\* list.remove(x): the list without the first x.
remove(list, x) ==
    LET i == CHOOSE i \in 1..Len(list) :
                 list[i] = x /\ \A j \in 1..(i - 1) : list[j] # x
    IN  SubSeq(list, 1, i - 1) \o SubSeq(list, i + 1, Len(list))

\* append_if_absent without its test.
append_always(list, x) == Append(list, x)

\* `if x not in list: list.append(x)`
append_if_absent(list, x) == IF InList(x, list) THEN list ELSE Append(list, x)

\* Removes the head of a list that holds x, wherever x is.
remove_head_if_present(list, x) == IF InList(x, list) THEN Tail(list) ELSE list

\* `if x in list: list.remove(x)`
remove_if_present(list, x) == IF InList(x, list) THEN remove(list, x) ELSE list

\* The two reads that open create_relationship and delete_relationship.
relationship_reads(first_user_id, second_user_id) ==
    <<Call("get", "users", first_user_id, None),
      Call("get", "users", second_user_id, None)>>

\* Only the first user's list is written.
first_relationships_written(first_user_id, first_user_relationships, second_user_id, second_user_relationships) ==
    doc_update(users, first_user_id, [relationships |-> first_user_relationships])

\* The users collection after both lists are written, first user's first.
relationships_written(first_user_id, first_user_relationships, second_user_id, second_user_relationships) ==
    doc_update(doc_update(users, first_user_id,
                          [relationships |-> first_user_relationships]),
               second_user_id, [relationships |-> second_user_relationships])

\* The two updates that close create_relationship and delete_relationship.
relationship_writes(first_user_id, first_user_relationships, second_user_id, second_user_relationships) ==
    <<Call("update", "users", first_user_id,
           [relationships |-> first_user_relationships]),
      Call("update", "users", second_user_id,
           [relationships |-> second_user_relationships])>>

\* Mutation.create_relationship(relationship_data)
create_relationship(first_user_id, second_user_id) ==
    /\ IF {first_user_id, second_user_id} \subseteq DOMAIN users
       THEN LET first_user_relationships ==
                    append_if_absent(GetOr(users[first_user_id], "relationships", <<>>),
                                     second_user_id)
                second_user_relationships ==
                    append_if_absent(GetOr(users[second_user_id], "relationships", <<>>),
                                     first_user_id)
            IN  /\ users' = relationships_written(first_user_id, first_user_relationships,
                                                  second_user_id, second_user_relationships)
                /\ calls' = relationship_reads(first_user_id, second_user_id)
                             \o relationship_writes(first_user_id, first_user_relationships,
                                                    second_user_id, second_user_relationships)
                /\ ret' = Result("create_relationship",
                                 <<first_user_id, second_user_id>>, None)
       ELSE /\ calls' = relationship_reads(first_user_id, second_user_id)
            /\ ret' = Failure("create_relationship", <<first_user_id, second_user_id>>,
                              "AttributeError: 'NoneType' object has no attribute 'get'")
            /\ UNCHANGED users
    /\ UNCHANGED <<recipes, blobs, now>>
    /\ UNCHANGED importVars
    /\ UNCHANGED inflight

\* Mutation.delete_relationship(relationship_data)
delete_relationship(first_user_id, second_user_id) ==
    /\ IF {first_user_id, second_user_id} \subseteq DOMAIN users
       THEN LET first_user_relationships ==
                    remove_if_present(GetOr(users[first_user_id], "relationships", <<>>),
                                      second_user_id)
                second_user_relationships ==
                    remove_if_present(GetOr(users[second_user_id], "relationships", <<>>),
                                      first_user_id)
            IN  /\ users' = relationships_written(first_user_id, first_user_relationships,
                                                  second_user_id, second_user_relationships)
                /\ calls' = relationship_reads(first_user_id, second_user_id)
                             \o relationship_writes(first_user_id, first_user_relationships,
                                                    second_user_id, second_user_relationships)
                /\ ret' = Result("delete_relationship",
                                 <<first_user_id, second_user_id>>, None)
       ELSE /\ calls' = relationship_reads(first_user_id, second_user_id)
            /\ ret' = Failure("delete_relationship", <<first_user_id, second_user_id>>,
                              "AttributeError: 'NoneType' object has no attribute 'get'")
            /\ UNCHANGED users
    /\ UNCHANGED <<recipes, blobs, now>>
    /\ UNCHANGED importVars
    /\ UNCHANGED inflight

\* The users collection that a completed delete_relationship leaves.
deleted_relationship(udocs, first_user_id, second_user_id) ==
    LET first_user_relationships ==
            remove_if_present(GetOr(udocs[first_user_id], "relationships", <<>>),
                              second_user_id)
        second_user_relationships ==
            remove_if_present(GetOr(udocs[second_user_id], "relationships", <<>>),
                              first_user_id)
    IN  doc_update(doc_update(udocs, first_user_id,
                              [relationships |-> first_user_relationships]),
                   second_user_id, [relationships |-> second_user_relationships])

\* The ids a client names: the users, and one id no document has.
ClientUserIds == UserIds \cup {"u9"}

RelationshipNext ==
    \/ \E first_user_id, second_user_id \in ClientUserIds :
          create_relationship(first_user_id, second_user_id)
    \/ \E first_user_id, second_user_id \in ClientUserIds :
          delete_relationship(first_user_id, second_user_id)

RelationshipSpec == Init /\ [][RelationshipNext]_vars

-----------------------------------------------------------------------------
(* create_relationship call by call, on several server processes: each     *)
(* Firestore call is one step, and the steps of different processes        *)
(* interleave.                                                             *)

Concurrently(w, step) ==
    /\ inflight' = [inflight EXCEPT ![w] = step]
    /\ UNCHANGED <<recipes, blobs, now, calls, ret>>
    /\ UNCHANGED importVars

\* Worker w receives createRelationship(first_user_id, second_user_id).
ReceiveCreateRelationship(w, first_user_id, second_user_id) ==
    /\ inflight[w].pc = "idle"
    /\ Concurrently(w, [inflight[w] EXCEPT !.pc = "read_first",
                                          !.first_user_id = first_user_id,
                                          !.second_user_id = second_user_id])
    /\ UNCHANGED users

\* first_user_doc = first_user_ref.get().to_dict()
ReadFirstUser(w) ==
    /\ inflight[w].pc = "read_first"
    /\ Concurrently(w, [inflight[w] EXCEPT
            !.pc = "read_second",
            !.first_user_relationships =
                GetOr(users[inflight[w].first_user_id], "relationships", <<>>)])
    /\ UNCHANGED users

\* second_user_doc = second_user_ref.get().to_dict(), then the two appends,
\* which touch only the local lists.
ReadSecondUser(w) ==
    /\ inflight[w].pc = "read_second"
    /\ Concurrently(w, [inflight[w] EXCEPT
            !.pc = "write_first",
            !.first_user_relationships =
                append_if_absent(inflight[w].first_user_relationships,
                                 inflight[w].second_user_id),
            !.second_user_relationships =
                append_if_absent(GetOr(users[inflight[w].second_user_id],
                                       "relationships", <<>>),
                                 inflight[w].first_user_id)])
    /\ UNCHANGED users

\* first_user_ref.update({"relationships": first_user_relationships})
WriteFirstUser(w) ==
    /\ inflight[w].pc = "write_first"
    /\ users' = doc_update(users, inflight[w].first_user_id,
                           [relationships |-> inflight[w].first_user_relationships])
    /\ Concurrently(w, [inflight[w] EXCEPT !.pc = "write_second"])

\* second_user_ref.update({"relationships": second_user_relationships}); return
WriteSecondUser(w) ==
    /\ inflight[w].pc = "write_second"
    /\ users' = doc_update(users, inflight[w].second_user_id,
                           [relationships |-> inflight[w].second_user_relationships])
    /\ Concurrently(w, [inflight[w] EXCEPT !.pc = "done"])

ConcurrentNext ==
    \/ \E w \in Workers, first_user_id, second_user_id \in UserIds :
          ReceiveCreateRelationship(w, first_user_id, second_user_id)
    \/ \E w \in Workers : ReadFirstUser(w)
    \/ \E w \in Workers : ReadSecondUser(w)
    \/ \E w \in Workers : WriteFirstUser(w)
    \/ \E w \in Workers : WriteSecondUser(w)

ConcurrentSpec == Init /\ [][ConcurrentNext]_vars

-----------------------------------------------------------------------------
(* The user mutation.                                                      *)

\* The loop over where("displayName", "==", display_name): some other
\* user's document has that name.
name_taken(udocs, user_id, display_name) ==
    \E u \in DOMAIN udocs :
        /\ "displayName" \in DOMAIN udocs[u]
        /\ udocs[u].displayName = display_name
        /\ u # user_id

\* The users collection after the updates of edit_user.
user_updated(udocs, user_id, display_name, profile_picture) ==
    LET named == IF display_name # None
                 THEN doc_update(udocs, user_id, [displayName |-> display_name])
                 ELSE udocs
    IN  IF profile_picture # None
        THEN doc_update(named, user_id, [profilePicture |-> profile_picture])
        ELSE named

\* The update calls of edit_user.
user_update_calls(user_id, display_name, profile_picture) ==
    (IF display_name # None
     THEN <<Call("update", "users", user_id, [displayName |-> display_name])>>
     ELSE <<>>)
    \o (IF profile_picture # None
        THEN <<Call("update", "users", user_id, [profilePicture |-> profile_picture])>>
        ELSE <<>>)

\* The User that edit_user returns, built from the document read back.
edited_user(user_id, user_data) ==
    [uid            |-> Some(user_id),
     displayName    |-> Get(user_data, "displayName"),
     profilePicture |-> Get(user_data, "profilePicture"),
     createdAt      |-> IsoOrNone(Get(user_data, "createdAt")),
     relationships  |-> None]

\* Mutation.edit_user(user_id, display_name, profile_picture)
edit_user(user_id, display_name, profile_picture) ==
    LET args == <<user_id, display_name, profile_picture>>
        read == <<Call("get", "users", user_id, None)>>
        query == IF Truthy(display_name)
                 THEN <<Call("where", "users", "displayName", display_name)>>
                 ELSE <<>>
    IN
    /\ IF user_id \notin DOMAIN users
       THEN /\ calls' = read
            /\ ret' = Failure("edit_user", args, "ValueError: User not found")
            /\ UNCHANGED users
       ELSE IF Truthy(display_name) /\ name_taken(users, user_id, display_name)
       THEN /\ calls' = read \o query
            /\ ret' = Failure("edit_user", args, "ValueError: Display name is already taken.")
            /\ UNCHANGED users
       ELSE /\ users' = user_updated(users, user_id, display_name, profile_picture)
            /\ calls' = read \o query
                         \o user_update_calls(user_id, display_name, profile_picture)
                         \o read
            /\ ret' = Result("edit_user", args, Some(edited_user(user_id, users'[user_id])))
    /\ UNCHANGED <<recipes, blobs, now>>
    /\ UNCHANGED importVars
    /\ UNCHANGED inflight

\* The arguments a client sends: a name someone holds, a free name, the
\* empty string, nothing; a new picture, the empty string, nothing.
DisplayNames == {None, Some("Ann"), Some("Dee"), Some("")}
ProfilePictures == {None, Some("https://example.com/new.jpg"), Some("")}

UserNext ==
    \E user_id \in ClientUserIds, display_name \in DisplayNames,
       profile_picture \in ProfilePictures :
        edit_user(user_id, display_name, profile_picture)

UserSpec == Init /\ [][UserNext]_vars

-----------------------------------------------------------------------------
(* The home page query.                                                    *)

\* Document names in ascending order: Firestore breaks the ties of an
\* order_by by document name, in the direction of the order_by.
DocumentNames == <<"r1", "r2">>
name_rank(id) == CHOOSE i \in 1..Len(DocumentNames) : DocumentNames[i] = id

\* where("user_id", "==", friend_id).where("has_cooked", "==", True)
cooked_by(docs, friend_id) ==
    {id \in DOMAIN docs : /\ Get(docs[id], "user_id") = Some(friend_id)
                          /\ Get(docs[id], "has_cooked") = Some(TRUE)}

\* order_by("createdAt", direction=DESCENDING)
RECURSIVE by_created_desc(_, _)
by_created_desc(docs, ids) ==
    IF ids = {} THEN <<>>
    ELSE LET first == CHOOSE id \in ids : \A o \in ids \ {id} :
                          \/ docs[id].createdAt[1] > docs[o].createdAt[1]
                          \/ /\ docs[id].createdAt[1] = docs[o].createdAt[1]
                             /\ name_rank(id) > name_rank(o)
         IN  <<first>> \o by_created_desc(docs, ids \ {first})

\* limit(num_recipes) and [:num_recipes]: everything when num_recipes is
\* None.
limit(list, num_recipes) ==
    IF num_recipes = None \/ num_recipes[1] >= Len(list) THEN list
    ELSE SubSeq(list, 1, num_recipes[1])

\* The documents one friend's query streams.
recipe_docs(docs, friend_id, num_recipes) ==
    limit(by_created_desc(docs, cooked_by(docs, friend_id)), num_recipes)

\* The month test of a recommendation; datetime.now() is taken on a server
\* whose local time is UTC.
same_month(recipe, t) ==
    LET recipe_created_at == Calendar[fromisoformat(recipe.createdAt[1])]
    IN  /\ recipe_created_at.year = Calendar[t].year
        /\ recipe_created_at.month = Calendar[t].month

\* What the inner loop appends for one friend.
RECURSIVE friend_recipes(_, _, _, _, _)
friend_recipes(docs, udocs, ids, recommendations, t) ==
    IF ids = <<>> THEN <<>>
    ELSE LET recipe == fetch_recipe(docs, Head(ids))[1]
             rest == friend_recipes(docs, udocs, Tail(ids), recommendations, t)
         IN  IF recommendations /\ ~same_month(recipe, t) THEN rest
             ELSE <<[recipe EXCEPT !.user = fetch_user(udocs, recipe.user_id)]>> \o rest

\* What the outer loop collects over relationships.
RECURSIVE collected(_, _, _, _, _, _)
collected(docs, udocs, relationships, num_recipes, recommendations, t) ==
    IF relationships = <<>> THEN <<>>
    ELSE friend_recipes(docs, udocs,
                        recipe_docs(docs, Head(relationships), num_recipes),
                        recommendations, t)
         \o collected(docs, udocs, Tail(relationships), num_recipes,
                      recommendations, t)

\* get_latest_datetime(recipe); datetime.min is 0.
get_latest_datetime(recipe) ==
    LET dates == (IF recipe.createdAt # None
                  THEN {fromisoformat(recipe.createdAt[1])} ELSE {})
                 \cup (IF recipe.lastUpdatedAt # None
                       THEN {fromisoformat(recipe.lastUpdatedAt[1])} ELSE {})
    IN  IF dates = {} THEN 0 ELSE CHOOSE d \in dates : \A e \in dates : d >= e

\* list.sort(key=get_latest_datetime, reverse=True): stable, so recipes
\* with equal keys keep the order in which they were collected.
RECURSIVE sort_latest_first(_)
sort_latest_first(list) ==
    IF list = <<>> THEN <<>>
    ELSE LET last == list[Len(list)]
             front == sort_latest_first(SubSeq(list, 1, Len(list) - 1))
             k == Cardinality({i \in 1..Len(front) :
                     get_latest_datetime(front[i]) >= get_latest_datetime(last)})
         IN  SubSeq(front, 1, k) \o <<last>> \o SubSeq(front, k + 1, Len(front))

\* get_home_page_recipes_for_user(user_id, num_recipes, recommendations)
get_home_page_recipes_for_user(docs, udocs, t, user_id, num_recipes, recommendations) ==
    IF ~Truthy(user_id) THEN <<>>
    ELSE LET stored == IF user_id[1] \in DOMAIN udocs
                       THEN GetOr(udocs[user_id[1]], "relationships", <<>>)
                       ELSE <<>>
             relationships == IF recommendations THEN stored
                              ELSE Append(stored, user_id[1])
         IN  limit(sort_latest_first(collected(docs, udocs, relationships,
                                               num_recipes, recommendations, t)),
                   num_recipes)

\* Query.getHomePageRecipes(user_id, num_recipes), and the call that
\* get_taste_page_info makes with recommendations=True.
getHomePageRecipes(user_id, num_recipes, recommendations) ==
    /\ ret' = Result("getHomePageRecipes", <<user_id, num_recipes, recommendations>>,
                     get_home_page_recipes_for_user(recipes, users, now, user_id,
                                                    num_recipes, recommendations))
    /\ calls' = <<>>
    /\ UNCHANGED <<users, recipes, blobs, now>>
    /\ UNCHANGED importVars
    /\ UNCHANGED inflight

\* Recipes of the three users: cooked ones, and one that was only saved.
HomeCreateInputs ==
    { RecipeInput(Some("u1"), None, Some("Chocolate Cake"), None,
                  None, None, None, Some(TRUE)),
      RecipeInput(Some("u2"), None, Some("Toast"), None,
                  None, None, None, Some(TRUE)),
      RecipeInput(Some("u2"), None, Some("Soup"), None,
                  None, None, None, Some(FALSE)),
      RecipeInput(Some("u3"), None, Some("Ramen"), None,
                  None, None, None, Some(TRUE)) }

HomeEditInputs ==
    { RecipeInput(None, None, Some("Updated Cake"), None, None, None, None, None) }

\* The reader: nobody, the empty id, a user with a friend.
HomeReaders == {None, Some(""), Some("u1")}
NumRecipes == {Some(1), Some(2)}

HomeNext ==
    \/ \E recipe_data \in HomeCreateInputs : create_recipe(recipe_data)
    \/ \E recipe_id \in RecipeIds, recipe_data \in HomeEditInputs :
          edit_recipe(recipe_id, recipe_data)
    \/ \E second_user_id \in {"u1", "u3"} : create_relationship("u1", second_user_id)
    \/ \E user_id \in HomeReaders, num_recipes \in NumRecipes,
          recommendations \in BOOLEAN :
          getHomePageRecipes(user_id, num_recipes, recommendations)
    \/ Tick

HomeSpec == Init /\ [][HomeNext]_vars

-----------------------------------------------------------------------------
(* Mutation.toggle_recipe_like (fast-api-backend.py), on recipes written   *)
(* by create_recipe, whose document is the same in both backends.          *)

\* max(0, n)
max0(n) == IF n < 0 THEN 0 ELSE n

\* A toggle that counts every call as a like.
like_update_counting_calls(recipe_data, user_id, t) ==
    LET likes_by_user == GetOr(recipe_data, "likes_by_user", <<>>)
    IN  [likes         |-> GetOr(recipe_data, "likes", 0) + 1,
         likes_by_user |-> IF InList(user_id, likes_by_user)
                           THEN remove(likes_by_user, user_id)
                           ELSE Append(likes_by_user, user_id),
         lastUpdatedAt |-> Some(t)]

\* The fields toggle_recipe_like writes: the like of user_id taken back if
\* it is there, added if not.
like_update(recipe_data, user_id, t) ==
    LET likes_by_user == GetOr(recipe_data, "likes_by_user", <<>>)
        current_likes == GetOr(recipe_data, "likes", 0)
    IN  IF InList(user_id, likes_by_user)
        THEN [likes         |-> max0(current_likes - 1),
              likes_by_user |-> remove(likes_by_user, user_id),
              lastUpdatedAt |-> Some(t)]
        ELSE [likes         |-> current_likes + 1,
              likes_by_user |-> Append(likes_by_user, user_id),
              lastUpdatedAt |-> Some(t)]

\* Mutation.toggle_recipe_like(recipe_id, user_id).  The Recipe it builds
\* after the update is given neither has_cooked nor lastUpdatedAt, which
\* the type declares without a default: the constructor raises TypeError.
toggle_recipe_like(recipe_id, user_id) ==
    /\ IF recipe_id \notin DOMAIN recipes
       THEN /\ ret' = Failure("toggle_recipe_like", <<recipe_id, user_id>>,
                              "ValueError: Recipe not found")
            /\ calls' = <<Call("get", "recipes", recipe_id, <<>>)>>
            /\ UNCHANGED recipes
       ELSE LET fields == like_update(recipes[recipe_id], user_id, now)
            IN  /\ recipes' = doc_update(recipes, recipe_id, fields)
                /\ calls' = <<Call("get", "recipes", recipe_id, <<>>),
                              Call("update", "recipes", recipe_id, fields)>>
                /\ ret' = Failure("toggle_recipe_like", <<recipe_id, user_id>>,
                                  "TypeError: missing arguments 'has_cooked' and 'lastUpdatedAt'")
    /\ UNCHANGED <<users, blobs, now>>
    /\ UNCHANGED importVars
    /\ UNCHANGED inflight

LikeCreateInputs ==
    { RecipeInput(Some("u1"), None, Some("Chocolate Cake"), None,
                  None, None, None, Some(TRUE)) }

LikeNext ==
    \/ \E recipe_data \in LikeCreateInputs : create_recipe(recipe_data)
    \/ \E recipe_id \in RecipeIds, user_id \in UserIds :
          toggle_recipe_like(recipe_id, user_id)
    \/ Tick

LikeSpec == Init /\ [][LikeNext]_vars

-----------------------------------------------------------------------------
(* The taste page query.  A percentage is kept in hundredths: 1.0 is 100.  *)

\* The keys of taste_counts, in the order of the dict.
Tastes == <<"Salty", "Sweet", "Sour", "Bitter", "Umami", "Spicy">>

\* The user's cooked recipes of any month.
counted_recipes_of_any_month(docs, user_id, t) == cooked_by(docs, user_id)

\* The user's cooked recipes of the current month, as the loop counts them:
\* where user_id, where has_cooked, then the test on recipe.createdAt.
counted_recipes(docs, user_id, t) ==
    {id \in cooked_by(docs, user_id) :
        LET recipe == fetch_recipe(docs, id)[1]
        IN  recipe.createdAt # None /\ same_month(recipe, t)}

\* taste_counts[taste] after the loop: one for every occurrence of the
\* taste in the tastes of every counted recipe.
RECURSIVE taste_count(_, _, _)
taste_count(docs, ids, taste) ==
    IF ids = {} THEN 0
    ELSE LET id == CHOOSE id \in ids : TRUE
             tastes == fetch_recipe(docs, id)[1].tastes
         IN  Cardinality({i \in 1..Len(tastes) : tastes[i] = taste})
             + taste_count(docs, ids \ {id}, taste)

\* round(count / total_recipes, 2), in hundredths; a tie goes to the even
\* hundredth.
round2(count, total_recipes) ==
    LET q == (100 * count) \div total_recipes
        r == (100 * count) % total_recipes
    IN  IF 2 * r > total_recipes \/ (2 * r = total_recipes /\ q % 2 = 1)
        THEN q + 1 ELSE q

\* taste_info_list.sort(key=lambda x: x.percentage, reverse=True): stable.
RECURSIVE sort_percentage_first(_)
sort_percentage_first(list) ==
    IF list = <<>> THEN <<>>
    ELSE LET last == list[Len(list)]
             front == sort_percentage_first(SubSeq(list, 1, Len(list) - 1))
             k == Cardinality({i \in 1..Len(front) :
                     front[i].percentage >= last.percentage})
         IN  SubSeq(front, 1, k) \o <<last>> \o SubSeq(front, k + 1, Len(front))

\* taste_info_list, sorted; empty when no recipe was counted.
taste_info_list(docs, user_id, t) ==
    LET ids == counted_recipes(docs, user_id, t)
        total_recipes == Cardinality(ids)
    IN  IF total_recipes = 0 THEN <<>>
        ELSE sort_percentage_first(
                 [i \in 1..Len(Tastes) |->
                     [taste      |-> Tastes[i],
                      percentage |-> round2(taste_count(docs, ids, Tastes[i]),
                                            total_recipes)]])

\* [t.taste for t in taste_info_list if t.percentage > 0][:3]
top_tastes(info) ==
    LET liked == SelectSeq(info, LAMBDA x : x.percentage > 0)
    IN  [i \in 1..(IF Len(liked) < 3 THEN Len(liked) ELSE 3) |-> liked[i].taste]

\* Query.get_taste_page_info(user_id), for a non-empty user_id.
taste_page(docs, udocs, t, user_id) ==
    LET info == taste_info_list(docs, user_id, t)
        top == top_tastes(info)
        home_page_recipes ==
            get_home_page_recipes_for_user(docs, udocs, t, Some(user_id), Some(5), TRUE)
    IN  [num_recipes        |-> Cardinality(counted_recipes(docs, user_id, t)),
         num_taste_profiles |-> Len(SelectSeq(info, LAMBDA x : x.percentage > 0)),
         taste_percentages  |-> info,
         recommendations    |->
             IF top = <<>> THEN <<>>
             ELSE SelectSeq(home_page_recipes,
                            LAMBDA recipe : \E i \in 1..Len(top) :
                                                InList(top[i], recipe.tastes))]

get_taste_page_info(user_id) ==
    /\ ret' = Result("get_taste_page_info", user_id,
                     IF user_id = "" THEN <<>>
                     ELSE Some(taste_page(recipes, users, now, user_id)))
    /\ calls' = <<>>
    /\ UNCHANGED <<users, recipes, blobs, now>>
    /\ UNCHANGED importVars
    /\ UNCHANGED inflight

\* Cooked recipes with one taste, with several, with a taste named twice
\* and with a taste that is none of the six; a recipe that was only saved.
TasteCreateInputs ==
    { RecipeInput(Some("u1"), None, Some("Chocolate Cake"), None,
                  None, None, Some(<<"Sweet">>), Some(TRUE)),
      RecipeInput(Some("u1"), None, Some("Ramen"), None,
                  None, None, Some(<<"Salty", "Umami", "Tangy">>), Some(TRUE)),
      RecipeInput(Some("u1"), None, Some("Fudge"), None,
                  None, None, Some(<<"Sweet", "Sweet">>), Some(TRUE)),
      RecipeInput(Some("u2"), None, Some("Toast"), None,
                  None, None, Some(<<"Salty">>), Some(TRUE)),
      RecipeInput(Some("u1"), None, Some("Soup"), None,
                  None, None, Some(<<"Sour">>), Some(FALSE)) }

TasteReaders == {"", "u1", "u2"}

TasteNext ==
    \/ \E recipe_data \in TasteCreateInputs : create_recipe(recipe_data)
    \/ \E user_id \in TasteReaders : get_taste_page_info(user_id)
    \/ Tick

TasteSpec == Init /\ [][TasteNext]_vars

-----------------------------------------------------------------------------
(* Vocabulary of the properties.                                           *)

Done(r) == pc[r] = "done"

RenderFailed(r) == env[r].render = "failed"

ImportFailed(r) ==
    RenderFailed(r) \/ env[r].extractor \in {"transport_failure", "parse_failure"}

\* What happened to the import of r, as the renderer and extractor saw it.
ImportKind(r) ==
    IF RenderFailed(r) THEN "render_failure" ELSE env[r].extractor

\* A returned value that is a populated recipe extraction.
IsRecipe(v) ==
    /\ v.t = "list"
    /\ Len(v.items) > 0
    /\ \A i \in 1..Len(v.items) : ~v.items[i].error

\* A returned value that tells the caller what went wrong, or that nothing
\* was found: neither null nor an empty extraction nor a recipe.
IsExplicitMarker(v) ==
    /\ v # Null
    /\ v # List(<<>>)
    /\ ~IsRecipe(v)

\* A response body that is an object carrying an `error` field.
HasErrorField(body) ==
    /\ body.t = "object"
    /\ "error" \in DOMAIN body.fields

OpenContexts == {r \in Requests : open[r]}

-----------------------------------------------------------------------------
(* Properties.                                                             *)

\* C1: when the render step fails, the import returns a RenderError outcome
\* (a value naming the failure, not null and not an exception) and no
\* extraction call is made during that import.
C1_RenderFailureReturnsRenderError ==
    \A r \in Requests :
        Done(r) /\ RenderFailed(r) =>
            /\ extractions[r] = 0
            /\ outcome[r].kind = "returned"
            /\ IsExplicitMarker(outcome[r].value)

\* C2: a failed import (render failure or extractor failure) is answered
\* with a 4xx/5xx status and a body carrying an `error` field, never 2xx.
C2_FailedImportAnswersErrorStatus ==
    \A r \in Requests :
        Done(r) /\ ImportFailed(r) =>
            /\ root(r).status \in 400..599
            /\ HasErrorField(root(r).body)

\* C3: whatever the renderer and the extractor answer, no exception escapes
\* extract or the endpoint: the import returns a value, never HTTP 500.
C3_NoExceptionEscapes ==
    \A r \in Requests :
        Done(r) => outcome[r].kind = "returned" /\ root(r).status # 500

\* C4: when the extractor reports no recipe data, the import returns an
\* explicit not-found marker (not an exception, not null, not an empty
\* extraction, not a recipe) and the endpoint answers 200 with it.
C4_NoRecipeReturnsSentinel ==
    \A r \in Requests :
        Done(r) /\ ImportKind(r) = "no_recipe" =>
            /\ outcome[r].kind = "returned"
            /\ root(r).status = 200
            /\ IsExplicitMarker(root(r).body)

\* C5: imports that ended in different kinds (render failure, extractor
\* transport failure, extractor parse failure, no recipe found, recipe)
\* never give the caller the same return value / HTTP response.
C5_OutcomeKindsDistinguishable ==
    \A r1, r2 \in Requests :
        Done(r1) /\ Done(r2) /\ ImportKind(r1) # ImportKind(r2) =>
            /\ outcome[r1] # outcome[r2]
            /\ root(r1) # root(r2)

\* C6: an import that reaches DONE carries exactly one outcome among
\* Recipe, NoRecipeFound and Error(kind, message): a returned value that is
\* a recipe or an explicit marker, never null and never an exception.
C6_DoneCarriesClassifiedOutcome ==
    \A r \in Requests :
        Done(r) =>
            /\ outcome[r].kind = "returned"
            /\ IsRecipe(outcome[r].value) \/ IsExplicitMarker(outcome[r].value)

\* C7: within one import there is at most one page render and at most one
\* extraction pass, whether they succeed or fail: nothing is retried.
C7_AtMostOneRenderAndExtraction ==
    \A r \in Requests : renders[r] <= 1 /\ extractions[r] <= 1

\* C7 witness: one import ended after a failed render, another after a
\* failed extraction, each having rendered once.
C7_Witness ==
    \E r1, r2 \in Requests :
        /\ Done(r1) /\ RenderFailed(r1) /\ renders[r1] = 1
        /\ Done(r2) /\ ImportKind(r2) = "transport_failure"
        /\ renders[r2] = 1 /\ extractions[r2] = 1

\* C8: the number of render contexts open at the same time stays below a
\* fixed bound however many requests are in flight: some request waits or
\* is rejected rather than opening a further context.
C8_OpenContextsBounded ==
    Cardinality(OpenContexts) < NumRequests

\* C9: a render context is closed once its import has ended, whichever way
\* it ended (return, exception while parsing, cancellation during the
\* crawl); a context is open only while its import is in flight.
C9_ContextClosedWhenImportEnds ==
    \A r \in Requests :
        /\ pc[r] \in {"done", "cancelled"} => ~open[r]
        /\ open[r] => pc[r] \in {"rendering", "extracting", "crawled"}

\* C9 witness: one import was cancelled during the crawl, one ended by an
\* exception in json.loads, one returned; all three contexts are closed.
C9_Witness ==
    \E r1, r2, r3 \in Requests :
        /\ pc[r1] = "cancelled" /\ renders[r1] = 1 /\ ~open[r1]
        /\ Done(r2) /\ outcome[r2].kind = "raised" /\ ~open[r2]
        /\ Done(r3) /\ outcome[r3].kind = "returned" /\ ~open[r3]

\* C10: under any interleaving, the outcome of each import is the outcome
\* extract gives when run alone on the crawl result answered for that
\* import's own URL; the other imports in flight do not change it.
C10_OutcomeAsWhenRunAlone ==
    \A r \in Requests :
        Done(r) => outcome[r] = extract_body(env[r].answer)

\* C10 witness: two imports ended with different outcomes while a third,
\* whose crawl answered something else again, is still in flight.
C10_Witness ==
    \E r1, r2, r3 \in Requests :
        /\ Done(r1) /\ Done(r2) /\ pc[r3] = "crawled"
        /\ outcome[r1] # outcome[r2]
        /\ env[r3].answer \notin {env[r1].answer, env[r2].answer}
        /\ extract_body(env[r3].answer) \notin {outcome[r1], outcome[r2]}

-----------------------------------------------------------------------------
(* Properties of the store operations.                                     *)

StoreUntouched ==
    /\ users = InitialUsers
    /\ recipes = NoDocuments
    /\ blobs = InitialBlobs
    /\ calls = <<>>

\* C11: an import, on every path (recipe returned, render failure,
\* exception, cancellation), makes no call on the document store or the
\* bucket and leaves every document and blob as it was.
C11_ImportLeavesStoreUnchanged == StoreUntouched

\* C11 witness: imports ended with a recipe, with a failed render, with an
\* exception, and the store is as at start-up.
C11_Witness ==
    \E r1, r2, r3 \in Requests :
        /\ Done(r1) /\ outcome[r1].kind = "returned" /\ IsRecipe(outcome[r1].value)
        /\ Done(r2) /\ RenderFailed(r2)
        /\ Done(r3) /\ outcome[r3].kind = "raised"
        /\ StoreUntouched

ScalarFields == {"user_id", "uid", "url", "name", "photo_url", "has_cooked"}
ListFields == {"ingredients", "steps", "tastes"}

\* The writes among the calls of an operation.
Writes(log) == SelectSeq(log, LAMBDA c : c.op \in {"set", "update", "delete"})

\* What C15 says of a step of create_recipe(recipe_data).
C15_Created(recipe_data) ==
    LET recipe == ret'.value
        id == recipe.uid[1]
        doc == recipes'[id]
        later == get_recipe(recipes', users', id)
    IN  /\ ret'.kind = "returned"
        /\ id \notin DOMAIN recipes
        /\ DOMAIN recipes' = DOMAIN recipes \cup {id}
        /\ \A other \in DOMAIN recipes : recipes'[other] = recipes[other]
        /\ calls' = <<Call("set", "recipes", id, doc)>>
        /\ DOMAIN doc = ScalarFields \cup ListFields \cup {"likes", "createdAt"}
        /\ doc.uid = Some(id)
        /\ \A f \in ScalarFields \ {"uid"} : doc[f] = recipe_data[f]
        /\ \A f \in ListFields :
              doc[f] = IF recipe_data[f] = None THEN <<>> ELSE recipe_data[f][1]
        /\ doc.likes = 0
        /\ doc.createdAt = Some(now)
        /\ \A f \in ScalarFields \cup ListFields \cup {"likes"} : recipe[f] = doc[f]
        /\ recipe.createdAt = Some(Calendar[now].iso)
        /\ recipe.lastUpdatedAt = None
        /\ \A f \in DOMAIN recipe \ {"user"} : later[f] = recipe[f]

\* C15: create_recipe writes exactly one new document, under the generated
\* id, with the input's fields (absent lists as []), likes 0, createdAt the
\* current time and no lastUpdatedAt; the Recipe returned has these values
\* and lastUpdatedAt null, and get_recipe of that uid gives them again.
C15_CreateRecipeWritesInput ==
    [][ret'.op = "create_recipe" /\ create_recipe(ret'.args)
          => C15_Created(ret'.args)]_vars

\* C15 witness: a recipe created from an input without lists, beside a
\* recipe that was already stored.
C15_Witness ==
    /\ ret.op = "create_recipe"
    /\ ret.args.tastes = None /\ ret.args.ingredients = None
    /\ Cardinality(DOMAIN recipes) = 2
    /\ recipes[ret.value.uid[1]].tastes = <<>>
    /\ recipes[ret.value.uid[1]].createdAt = Some(now)

\* What C16 says of a step of edit_recipe(recipe_id, recipe_data) on a
\* recipe that exists.
C16_Edited(recipe_id, recipe_data) ==
    LET provided == {f \in RecipeInputFields : recipe_data[f] # None}
        writes == Writes(calls')
        fields == writes[1].data
        before == recipes[recipe_id]
        after == recipes'[recipe_id]
        recipe == ret'.value
    IN  /\ ret'.kind = "returned"
        /\ Len(writes) = 1
        /\ writes[1].op = "update" /\ writes[1].id = recipe_id
        /\ DOMAIN fields = provided \cup {"lastUpdatedAt"}
        /\ fields.lastUpdatedAt = Some(now)
        /\ \A f \in provided \cap ScalarFields : fields[f] = recipe_data[f]
        /\ \A f \in provided \cap ListFields : fields[f] = recipe_data[f][1]
        /\ DOMAIN after = DOMAIN before \cup DOMAIN fields
        /\ \A f \in DOMAIN fields : after[f] = fields[f]
        /\ \A f \in DOMAIN before \ DOMAIN fields : after[f] = before[f]
        /\ \A f \in {"uid", "likes", "createdAt"} : after[f] = before[f]
        /\ DOMAIN recipes' = DOMAIN recipes
        /\ \A other \in DOMAIN recipes \ {recipe_id} : recipes'[other] = recipes[other]
        /\ \A f \in ScalarFields \cup ListFields \cup {"likes"} : recipe[f] = after[f]
        /\ recipe.createdAt = Some(Calendar[after.createdAt[1]].iso)
        /\ recipe.lastUpdatedAt = Some(Calendar[now].iso)

\* C16: edit_recipe on an existing recipe issues exactly one update, with
\* exactly the input fields that are not null plus lastUpdatedAt = now;
\* every other stored field, and always uid, likes and createdAt, keeps its
\* value; the Recipe returned is the document as stored after the update.
C16_EditRecipeUpdatesProvidedFields ==
    [][/\ ret'.op = "edit_recipe"
        /\ ret'.args[1] \in DOMAIN recipes
        /\ edit_recipe(ret'.args[1], ret'.args[2])
        => C16_Edited(ret'.args[1], ret'.args[2])]_vars

\* C16 witness: a recipe created earlier was renamed; its tastes and its
\* createdAt are those of its creation.
C16_Witness ==
    /\ ret.op = "edit_recipe" /\ ret.kind = "returned"
    /\ ret.args[2].name = Some("Updated Cake")
    /\ LET doc == recipes[ret.args[1]] IN
          /\ doc.name = Some("Updated Cake")
          /\ doc.tastes = <<"Sweet">>
          /\ doc.lastUpdatedAt = Some(now)
          /\ doc.createdAt[1] < now

\* What C17 says of a step of delete_recipe(recipe_id) on a recipe that
\* exists.
C17_Deleted(recipe_id) ==
    LET photo_url == recipes[recipe_id].photo_url
        deletes == SelectSeq(calls', LAMBDA c : c.op = "delete")
    IN  /\ ret'.kind = "returned"
        /\ recipe_id \notin DOMAIN recipes'
        /\ Truthy(photo_url) /\ blob_path(photo_url[1]) # None
              => blob_path(photo_url[1])[1] \notin blobs'
        /\ deletes[Len(deletes)].coll = "recipes"

\* C17: delete_recipe of a recipe that exists, whatever its photo_url,
\* completes without error; afterwards the document is gone and so is the
\* photo blob if there was one; the blob is deleted before the document.
C17_DeleteRecipeRemovesDocumentAndPhoto ==
    [][/\ ret'.op = "delete_recipe"
        /\ ret'.args \in DOMAIN recipes
        /\ delete_recipe(ret'.args)
        => C17_Deleted(ret'.args)]_vars

\* C12: whatever value extract returns, the endpoint answers 200 with a body
\* that is exactly that value: nothing added, removed or renamed.
C12_ResponseIsPipelineValue ==
    \A r \in Requests :
        Done(r) /\ outcome[r].kind = "returned"
            => /\ root(r).status = 200
               /\ root(r).body = extract_body(env[r].answer).value

\* Three imports answered: a recipe, an empty extraction and null.
C12_Witness ==
    \E r1, r2, r3 \in Requests :
        /\ Done(r1) /\ root(r1) = [status |-> 200, body |-> List(<<RecipeBlock>>)]
        /\ Done(r2) /\ root(r2) = [status |-> 200, body |-> List(<<>>)]
        /\ Done(r3) /\ root(r3) = [status |-> 200, body |-> Null]

\* The blocks of a response body: the items of a list, or the body itself.
Blocks(body) == IF body.t = "list" THEN body.items ELSE <<body>>

\* C13: the body of a successful import carries name, ingredients and
\* instructions, and every ingredient has exactly the fields name and count.
C13_IngredientsHaveNameAndCount ==
    \A r \in Requests :
        Done(r) /\ outcome[r].kind = "returned" /\ IsRecipe(outcome[r].value)
            => \A i \in 1..Len(Blocks(root(r).body)) :
                  LET block == Blocks(root(r).body)[i]
                  IN  /\ {"name", "ingredients", "instructions"} \subseteq DOMAIN block
                      /\ \A j \in 1..Len(block.ingredients) :
                            DOMAIN block.ingredients[j] = {"name", "count"}

\* How often x occurs in list.
Count(x, list) == Cardinality({i \in 1..Len(list) : list[i] = x})

\* What C18 says of a step of create_relationship(a, b) on two users that
\* exist.
C18_Related(a, b) ==
    /\ ret'.kind = "returned"
    /\ Count(b, users'[a].relationships) = 1
    /\ Count(a, users'[b].relationships) = 1
    /\ InList(b, users[a].relationships)
          => users'[a].relationships = users[a].relationships
    /\ InList(a, users[b].relationships)
          => users'[b].relationships = users[b].relationships
    /\ \A u \in DOMAIN users \ {a, b} : users'[u] = users[u]
    /\ \A u \in {a, b} : \A x \in UserIds \ {a, b} :
          Count(x, users'[u].relationships) = Count(x, users[u].relationships)
    \* a second call changes nothing
    /\ append_if_absent(users'[a].relationships, b) = users'[a].relationships
    /\ append_if_absent(users'[b].relationships, a) = users'[b].relationships

\* C18: create_relationship(a, b) on two existing users leaves b in a's
\* list and a in b's list exactly once each, adds nothing that was already
\* there, changes nothing when called again, and touches no other user.
C18_CreateRelationshipAddsBothOnce ==
    [][/\ ret'.op = "create_relationship"
        /\ {ret'.args[1], ret'.args[2]} \subseteq DOMAIN users
        /\ create_relationship(ret'.args[1], ret'.args[2])
        => C18_Related(ret'.args[1], ret'.args[2])]_vars

\* u3, related to nobody, has just been related to u1, who already had u2.
C18_Witness ==
    /\ ret = Result("create_relationship", <<"u1", "u3">>, None)
    /\ users["u1"].relationships = <<"u2", "u3">>
    /\ users["u3"].relationships = <<"u1">>
    /\ users["u2"].relationships = <<"u1">>

\* What C19 says of a step of edit_user(user_id, display_name,
\* profile_picture), with `relationships` as the relationships it returns.
C19_Edited(user_id, display_name, profile_picture, relationships) ==
    LET before == users[user_id]
        after == users'[user_id]
    IN  /\ ret'.kind = "returned"
        /\ after.displayName =
              IF display_name # None THEN display_name ELSE before.displayName
        /\ after.profilePicture =
              IF profile_picture # None THEN profile_picture ELSE before.profilePicture
        /\ DOMAIN after = DOMAIN before
        /\ \A f \in DOMAIN before \ {"displayName", "profilePicture"} :
              after[f] = before[f]
        /\ \A u \in DOMAIN users \ {user_id} : users'[u] = users[u]
        /\ DOMAIN users' = DOMAIN users
        /\ ret'.value[1] = [uid            |-> Some(user_id),
                             displayName    |-> after.displayName,
                             profilePicture |-> after.profilePicture,
                             createdAt      |-> IsoOrNone(after.createdAt),
                             relationships  |-> relationships]

\* The requested display name is held by no other user.
C19_NameFree(user_id, display_name) ==
    display_name = None \/ ~name_taken(users, user_id, display_name)

\* C19: edit_user on an existing user, with a display name no other user
\* holds, sets displayName and profilePicture to the non-null arguments,
\* leaves every other field unchanged and returns the user as stored after
\* the update (relationships included) with uid = user_id.
C19_EditUserReturnsStoredUser ==
    [][/\ ret'.op = "edit_user"
        /\ ret'.args[1] \in DOMAIN users
        /\ C19_NameFree(ret'.args[1], ret'.args[2])
        /\ edit_user(ret'.args[1], ret'.args[2], ret'.args[3])
        => C19_Edited(ret'.args[1], ret'.args[2], ret'.args[3],
                      Some(users'[ret'.args[1]].relationships))]_vars

\* The part of C19 that holds: the fields are set and kept as C19 says, and
\* the User returned carries displayName, profilePicture and createdAt as
\* stored, with null for relationships.
C19_EditUserReturnsStoredFields ==
    [][/\ ret'.op = "edit_user"
        /\ ret'.args[1] \in DOMAIN users
        /\ C19_NameFree(ret'.args[1], ret'.args[2])
        /\ edit_user(ret'.args[1], ret'.args[2], ret'.args[3])
        => C19_Edited(ret'.args[1], ret'.args[2], ret'.args[3], None)]_vars

\* u1, who has u2 in relationships, was renamed and keeps the picture.
C19_ReturnedWithoutRelationships ==
    /\ ret.op = "edit_user" /\ ret.kind = "returned"
    /\ ret.args = <<"u1", Some("Dee"), None>>
    /\ users["u1"].displayName = Some("Dee")
    /\ users["u1"].profilePicture = Some("https://example.com/pfp.jpg")
    /\ users["u1"].relationships = <<"u2">>
    /\ ret.value[1].relationships = None

\* The later of createdAt and lastUpdatedAt of a returned recipe, read from
\* its document.
C20_Latest(recipe) ==
    LET doc == recipes[recipe.uid[1]]
        updated == IF "lastUpdatedAt" \in DOMAIN doc THEN doc.lastUpdatedAt[1] ELSE 0
    IN  IF doc.createdAt[1] >= updated THEN doc.createdAt[1] ELSE updated

\* The reader and the members of the reader's stored relationships list.
C20_Authors(user_id) ==
    {user_id} \cup {users[user_id].relationships[i] :
                       i \in 1..Len(users[user_id].relationships)}

\* What C20 says of the list a home page query returns.
C20_HomePage(user_id, num_recipes, recommendations, list) ==
    /\ Len(list) <= num_recipes[1]
    /\ ~Truthy(user_id) => list = <<>>
    /\ \A i \in 1..Len(list) :
          /\ list[i].has_cooked = Some(TRUE)
          /\ list[i].user_id[1] \in C20_Authors(user_id[1])
          /\ list[i].user # None
          /\ list[i].user[1].uid = list[i].user_id
          /\ list[i].user[1].displayName = users[list[i].user_id[1]].displayName
    /\ \A i, j \in 1..Len(list) : i < j => C20_Latest(list[i]) >= C20_Latest(list[j])
    /\ recommendations =>
          \A i \in 1..Len(list) :
              /\ list[i].user_id # user_id
              /\ Calendar[recipes[list[i].uid[1]].createdAt[1]].month = Calendar[now].month
              /\ Calendar[recipes[list[i].uid[1]].createdAt[1]].year = Calendar[now].year

\* C20: the home page of user_id holds at most n recipes, all cooked, each
\* by the user or a member of the user's relationships and carrying its
\* author, newest first by the later of createdAt and lastUpdatedAt; as
\* recommendations it holds none of the user's own recipes and only recipes
\* of the current month; for an empty user_id it is empty.
C20_HomePageRecipes ==
    [][/\ ret'.op = "getHomePageRecipes"
        /\ getHomePageRecipes(ret'.args[1], ret'.args[2], ret'.args[3])
        => C20_HomePage(ret'.args[1], ret'.args[2], ret'.args[3], ret'.value)]_vars

\* The part of C20 that holds: all of it for a reader who is not a member
\* of the reader's own relationships list.
C20_HomePageRecipesOfOthers ==
    [][/\ ret'.op = "getHomePageRecipes"
        /\ (Truthy(ret'.args[1])
              => ~InList(ret'.args[1][1], users[ret'.args[1][1]].relationships))
        /\ getHomePageRecipes(ret'.args[1], ret'.args[2], ret'.args[3])
        => C20_HomePage(ret'.args[1], ret'.args[2], ret'.args[3], ret'.value)]_vars

\* Two recipes on u1's home page, the one edited last first although it
\* was created first.
C20_EditedFirst ==
    /\ ret.op = "getHomePageRecipes" /\ ret.args = <<Some("u1"), Some(2), FALSE>>
    /\ Len(ret.value) = 2
    /\ ret.value[1].name = Some("Updated Cake")
    /\ recipes[ret.value[1].uid[1]].createdAt[1] < recipes[ret.value[2].uid[1]].createdAt[1]

\* What C28 says of a step of a mutation on a recipe id without a document.
C28_NotFound ==
    /\ ret'.kind = "raised"
    /\ ret'.exc = "ValueError: Recipe not found"
    /\ recipes' = recipes
    /\ blobs' = blobs
    /\ users' = users
    /\ Writes(calls') = <<>>

\* C28: edit_recipe and delete_recipe on a recipe id that has no document
\* fail with a not-found error and change nothing: no document is created,
\* updated or deleted and no blob is deleted.
C28_MissingRecipeFailsAndChangesNothing ==
    [][/\ (/\ ret'.op = "edit_recipe"
            /\ ret'.args[1] \notin DOMAIN recipes
            /\ edit_recipe(ret'.args[1], ret'.args[2])
            => C28_NotFound)
        /\ (/\ ret'.op = "delete_recipe"
            /\ ret'.args \notin DOMAIN recipes
            /\ delete_recipe(ret'.args)
            => C28_NotFound)]_vars

\* r1 is stored with its photo, and a mutation of r2, which has no
\* document, has just failed.
C28_Witness ==
    /\ ret.op \in {"edit_recipe", "delete_recipe"}
    /\ ret.kind = "raised"
    /\ ret.exc = "ValueError: Recipe not found"
    /\ DOMAIN recipes = {"r1"}
    /\ recipes["r1"].photo_url = Some(FirebasePhoto)
    /\ "images/test.jpg" \in blobs

\* C22: no two distinct users have the same displayName, whatever edit_user
\* calls have completed (the empty string and a user's own name included).
C22_DisplayNamesUnique ==
    \A u, v \in DOMAIN users :
        u # v => users[u].displayName # users[v].displayName

\* The part of C22 that holds: a call whose name another user holds, unless
\* it is the empty string, fails with 'already taken' and changes nothing.
C22_TakenNameIsRefused ==
    [][/\ ret'.op = "edit_user"
        /\ ret'.args[1] \in DOMAIN users
        /\ Truthy(ret'.args[2])
        /\ name_taken(users, ret'.args[1], ret'.args[2])
        /\ edit_user(ret'.args[1], ret'.args[2], ret'.args[3])
        => /\ ret'.kind = "raised"
           /\ ret'.exc = "ValueError: Display name is already taken."
           /\ users' = users]_vars

\* C23: the relationship lists are symmetric (v is in u's list exactly when
\* u is in v's) and hold no id twice, whatever create_relationship and
\* delete_relationship calls have completed, calls naming one user on both
\* sides included.
C23_RelationshipsSymmetricAndDuplicateFree ==
    \A u, v \in DOMAIN users :
        /\ InList(v, users[u].relationships) <=> InList(u, users[v].relationships)
        /\ Count(v, users[u].relationships) <= 1

\* u1 was related to u3 and to u1, and then the relationship of u1 and u2
\* was deleted.
C23_Witness ==
    /\ ret = Result("delete_relationship", <<"u1", "u2">>, None)
    /\ users["u1"].relationships = <<"u3", "u1">>
    /\ users["u2"].relationships = <<>>
    /\ users["u3"].relationships = <<"u1">>

\* a and b are not related: neither is in the other's list.
C29_Unrelated(a, b) ==
    /\ ~InList(b, users[a].relationships)
    /\ ~InList(a, users[b].relationships)

\* C29: for existing users a and b that are not related,
\* create_relationship(a, b) followed by delete_relationship(a, b) or by
\* delete_relationship(b, a) leaves every list as it was, and
\* delete_relationship on them changes no list.  The second conjunct also
\* states that deleted_relationship is what delete_relationship does to the
\* store.
C29_DeleteUndoesCreate ==
    [][/\ (/\ ret'.op = "create_relationship"
            /\ {ret'.args[1], ret'.args[2]} \subseteq DOMAIN users
            /\ C29_Unrelated(ret'.args[1], ret'.args[2])
            /\ create_relationship(ret'.args[1], ret'.args[2])
            => /\ deleted_relationship(users', ret'.args[1], ret'.args[2]) = users
               /\ deleted_relationship(users', ret'.args[2], ret'.args[1]) = users)
        /\ (/\ ret'.op = "delete_relationship"
            /\ {ret'.args[1], ret'.args[2]} \subseteq DOMAIN users
            /\ delete_relationship(ret'.args[1], ret'.args[2])
            => /\ users' = deleted_relationship(users, ret'.args[1], ret'.args[2])
               /\ C29_Unrelated(ret'.args[1], ret'.args[2]) => users' = users)]_vars

\* u1, who had u2, has just been related to u3, and deleting that
\* relationship gives back the lists of the start.
C29_Witness ==
    /\ ret = Result("create_relationship", <<"u1", "u3">>, None)
    /\ users["u1"].relationships = <<"u2", "u3">>
    /\ users["u3"].relationships = <<"u1">>
    /\ deleted_relationship(users, "u3", "u1") = InitialUsers

\* C24: when two create_relationship calls that name the same first user
\* have run concurrently and both have completed, each call's second user
\* is in the first user's list and the first user is in each second
\* user's list.
C24_NoLostRelationship ==
    \A w1, w2 \in Workers :
        /\ w1 # w2
        /\ inflight[w1].pc = "done" /\ inflight[w2].pc = "done"
        /\ inflight[w1].first_user_id = inflight[w2].first_user_id
        => /\ InList(inflight[w1].second_user_id,
                     users[inflight[w1].first_user_id].relationships)
           /\ InList(inflight[w1].first_user_id,
                     users[inflight[w1].second_user_id].relationships)

\* The part of C24 that holds: a call that ran with no write of another
\* process between its first read and its last write left both ids in
\* place; here, a call that completed while the other process was idle.
C24_AloneNothingIsLost ==
    \A w1, w2 \in Workers :
        /\ w1 # w2
        /\ inflight[w1].pc = "done" /\ inflight[w2].pc = "idle"
        => /\ InList(inflight[w1].second_user_id,
                     users[inflight[w1].first_user_id].relationships)
           /\ InList(inflight[w1].first_user_id,
                     users[inflight[w1].second_user_id].relationships)

\* C25: a home page never holds the same recipe uid twice, whatever recipes
\* and relationships have been created (a relationship of a user with
\* the user's own id included).
C25_NoRecipeTwice ==
    [][/\ ret'.op = "getHomePageRecipes"
        /\ getHomePageRecipes(ret'.args[1], ret'.args[2], ret'.args[3])
        => \A i, j \in 1..Len(ret'.value) :
              i # j => ret'.value[i].uid # ret'.value[j].uid]_vars

\* The part of C25 that holds: no uid twice for a reader who is not a
\* member of the reader's own relationships list.
C25_NoRecipeTwiceForOthers ==
    [][/\ ret'.op = "getHomePageRecipes"
        /\ (Truthy(ret'.args[1])
              => ~InList(ret'.args[1][1], users[ret'.args[1][1]].relationships))
        /\ getHomePageRecipes(ret'.args[1], ret'.args[2], ret'.args[3])
        => \A i, j \in 1..Len(ret'.value) :
              i # j => ret'.value[i].uid # ret'.value[j].uid]_vars

\* The later of createdAt and lastUpdatedAt of a stored recipe.
C26_Key(id) ==
    LET doc == recipes[id]
        updated == IF "lastUpdatedAt" \in DOMAIN doc THEN doc.lastUpdatedAt[1] ELSE 0
    IN  IF doc.createdAt[1] >= updated THEN doc.createdAt[1] ELSE updated

\* The keys of a set of recipes, largest first.
RECURSIVE C26_KeysDescending(_)
C26_KeysDescending(ids) ==
    IF ids = {} THEN <<>>
    ELSE LET top == CHOOSE id \in ids : \A o \in ids : C26_Key(id) >= C26_Key(o)
         IN  <<C26_Key(top)>> \o C26_KeysDescending(ids \ {top})

\* All cooked recipes of the reader and the reader's friends.
C26_AllCooked(user_id) ==
    {id \in DOMAIN recipes : /\ recipes[id].has_cooked = Some(TRUE)
                             /\ recipes[id].user_id # None
                             /\ recipes[id].user_id[1] \in C20_Authors(user_id)}

\* C26: the home page is the true top n: the recipes it returns are as
\* recent, position by position, as the first n of all cooked recipes of
\* the reader and the reader's friends sorted by the later of createdAt
\* and lastUpdatedAt, newest first.  Stated for a reader who is not in the
\* reader's own relationships list, and on the keys, so that neither a
\* recipe returned twice nor the order among equal keys can fail it.
C26_TrueTopN ==
    [][/\ ret'.op = "getHomePageRecipes"
        /\ Truthy(ret'.args[1]) /\ ~ret'.args[3]
        /\ ~InList(ret'.args[1][1], users[ret'.args[1][1]].relationships)
        /\ getHomePageRecipes(ret'.args[1], ret'.args[2], ret'.args[3])
        => [i \in 1..Len(ret'.value) |-> C20_Latest(ret'.value[i])]
             = limit(C26_KeysDescending(C26_AllCooked(ret'.args[1][1])), ret'.args[2])]_vars

\* The ids of a list.
Members(list) == {list[i] : i \in 1..Len(list)}

\* What C30 says of the stored likes of a recipe.
C30_Consistent(doc) ==
    LET likes_by_user == GetOr(doc, "likes_by_user", <<>>)
    IN  /\ doc.likes >= 0
        /\ doc.likes = Len(likes_by_user)
        /\ \A u \in Members(likes_by_user) : Count(u, likes_by_user) = 1

C21_Counted(user_id) ==
    {id \in DOMAIN recipes :
        /\ recipes[id].user_id = Some(user_id)
        /\ recipes[id].has_cooked = Some(TRUE)
        /\ Calendar[recipes[id].createdAt[1]].year = Calendar[now].year
        /\ Calendar[recipes[id].createdAt[1]].month = Calendar[now].month}

\* The occurrences of a taste in the tastes of the counted recipes.
C21_Occurrences(user_id, taste) ==
    Cardinality({p \in C21_Counted(user_id) \X (1..3) :
                    /\ p[2] <= Len(recipes[p[1]].tastes)
                    /\ recipes[p[1]].tastes[p[2]] = taste})

\* round2 gives the hundredth nearest to count / total_recipes, for every
\* number of counted recipes up to MaxCounted and up to three occurrences
\* of a taste in each.
MaxCounted == 7
C21_Rounded ==
    \A total_recipes \in 1..MaxCounted : \A count \in 0..(3 * total_recipes) :
        LET d == 100 * count - round2(count, total_recipes) * total_recipes
        IN  2 * d <= total_recipes /\ 2 * d >= 0 - total_recipes

\* What C21 says of the page returned for user_id.
C21_Page(user_id, page) ==
    LET n == Cardinality(C21_Counted(user_id))
        info == page.taste_percentages
    IN  /\ page.num_recipes = n
        /\ n > 0 =>
              /\ Len(info) = 6
              /\ {info[i].taste : i \in 1..Len(info)} = Members(Tastes)
              /\ \A i \in 1..Len(info) :
                    \* the hundredth nearest to occurrences / n
                    LET d == 100 * C21_Occurrences(user_id, info[i].taste)
                               - info[i].percentage * n
                    IN  2 * d <= n /\ 2 * d >= 0 - n
              /\ C21_Rounded
              /\ \A i, j \in 1..Len(info) :
                    i < j => info[i].percentage >= info[j].percentage
              /\ page.num_taste_profiles
                    = Cardinality({i \in 1..Len(info) : info[i].percentage > 0})
        /\ n = 0 => info = <<>> /\ page.recommendations = <<>>

\* C21: the taste page counts the user's cooked recipes of the current
\* month; with at least one, it lists the six tastes, each with its
\* occurrences divided by that number and rounded to two decimals, largest
\* first, and the number of tastes above zero; with none, it lists no
\* taste and no recommendation.
C21_TastePage ==
    [][/\ ret'.op = "get_taste_page_info" /\ ret'.args # ""
        /\ get_taste_page_info(ret'.args)
        => C21_Page(ret'.args, ret'.value[1])]_vars

\* Two cooked recipes of u1, one of last month: one is counted, and Sweet,
\* its only taste, comes first of six with 1.0.
C21_Witness ==
    /\ ret.op = "get_taste_page_info" /\ ret.args = "u1"
    /\ DOMAIN recipes = {"r1", "r2"}
    /\ \A id \in DOMAIN recipes :
          recipes[id].user_id = Some("u1") /\ recipes[id].has_cooked = Some(TRUE)
    /\ recipes["r1"].createdAt = Some(1) /\ recipes["r2"].createdAt = Some(2)
    /\ now = 2
    /\ ret.value[1].num_recipes = 1
    /\ ret.value[1].num_taste_profiles = 1
    /\ Len(ret.value[1].taste_percentages) = 6
    /\ ret.value[1].taste_percentages[1] = [taste |-> "Sweet", percentage |-> 100]

\* C27: every percentage of a taste page lies between 0 and 1 (0 and 100
\* hundredths), whatever tastes lists are stored.
C27_PercentagesWithinUnit ==
    [][/\ ret'.op = "get_taste_page_info" /\ ret'.args # ""
        /\ get_taste_page_info(ret'.args)
        => \A i \in 1..Len(ret'.value[1].taste_percentages) :
              /\ ret'.value[1].taste_percentages[i].percentage >= 0
              /\ ret'.value[1].taste_percentages[i].percentage <= 100]_vars

====
